---- MODULE Spec2Model ----
(***************************************************************************)
(* The connection engine of may_minihttp (src/src/http_server.rs): the     *)
(* accept loop of HttpServer::start / HttpServiceFactory::start and the    *)
(* per-connection coroutine each_connection_loop, one step per socket      *)
(* call, decoder call, service call and buffer operation.                  *)
(*                                                                         *)
(* Bytes are pairs <<tag, id>>.  A request is one header byte <<kind, i>>  *)
(* followed by the four terminator bytes CR LF CR LF; a response is one    *)
(* status byte <<"200"|"500", i>> followed by its body bytes.  The id in a *)
(* byte names the request it belongs to, so that order, duplication and    *)
(* loss of bytes are visible.                                              *)
(***************************************************************************)
EXTENDS Integers, Sequences, FiniteSets, TLC

\* ------------------------------------------------------------ bounds
MaxConns == 2        \* connections the listener can hand out
MaxReqs == 2         \* requests a peer sends on a connection
IsoReqs == 1         \* requests per peer when two peers are connected
MaxFull == 1         \* times a socket's send buffer fills up
MaxPads == 3         \* segments of a long header a peer sends

\* the free capacity below which the read buffer is grown before a read
Watermark == 512

\* BytesMut::with_capacity(4096 * 8) and the amount `reserve` is asked from
ReqCapacity == 4096 * 8

\* the sizes of the segments a long header arrives in
ChunkSizes == {1, Watermark - 1, ReqCapacity - Watermark, ReqCapacity}

\* HttpServiceFactory::start and HttpServer::start
Modes == {"factory", "shared"}

Conn == 1..MaxConns

VARIABLES
    acceptor,   \* the accept coroutine: [pc, mode, unlogged]
    task,       \* per connection: the locals of each_connection_loop
    sock,       \* per connection: the socket and the peer behind it
    hist        \* per connection: what the task has done so far (history)

vars == <<acceptor, task, sock, hist>>

\* ------------------------------------------------------------ bytes
CR == <<"CR", 0>>
LF == <<"LF", 0>>
Terminator == <<CR, LF, CR, LF>>

Kinds == {"ok", "bad", "part"}

RequestBytes(kind, i) == <<<<kind, i>>>> \o Terminator

ReqLen == Len(RequestBytes("ok", 1))

RECURSIVE ScriptBytesFrom(_, _)
ScriptBytesFrom(script, i) ==
    IF i > Len(script) THEN <<>>
    ELSE RequestBytes(script[i], i) \o ScriptBytesFrom(script, i + 1)

ScriptBytes(script) == ScriptBytesFrom(script, 1)

Scripts(n) == UNION {[1..k -> Kinds] : k \in 0..n}

IsPrefix(s, t) == Len(s) <= Len(t) /\ SubSeq(t, 1, Len(s)) = s

SetMax(S) == CHOOSE x \in S : \A y \in S : y <= x
SetMin(S) == CHOOSE x \in S : \A y \in S : x <= y

\* the positions at which the terminator starts in buf
TerminatorAt(buf) ==
    {i \in 1..(Len(buf) - 3) : SubSeq(buf, i, i + 3) = Terminator}

\* FinderRev::new(b"\r\n\r\n").rfind(buf): the last position, 0 for None
rfind(buf) == IF TerminatorAt(buf) = {} THEN 0 ELSE SetMax(TerminatorAt(buf))

\* request::decode(&req_buf, &mut headers, &mut stream): the header block up
\* to the first terminator is one request; Some(req), None (need more data)
\* or Err (malformed).
decode(buf) ==
    IF TerminatorAt(buf) = {} THEN [res |-> "none", id |-> 0]
    ELSE LET head == SubSeq(buf, 1, SetMin(TerminatorAt(buf)) - 1) IN
         IF Len(head) = 1 /\ head[1][1] = "ok"
           THEN [res |-> "some", id |-> head[1][2]]
         ELSE IF Len(head) = 1 /\ head[1][1] = "part"
           THEN [res |-> "none", id |-> head[1][2]]
         ELSE [res |-> "err", id |-> 0]

\* ------------------------------------------------------------ responses
\* Response::new(&mut body_buf): status 200, the body staged in body_buf
Response_new(id) == [status |-> "200", of |-> id]

\* what e.to_string() gives for the error of request id
ErrText(id) == <<<<"err", id>>>>

\* what a handler stages for request id
HandlerBody(id) == <<<<"body", id>>>>

\* internal_error_rsp without buf.clear(): what the handler staged stays
internal_error_rsp_NoClear(id, buf) ==
    [rsp |-> [status |-> "500", of |-> id], body |-> buf \o ErrText(id)]

\* internal_error_rsp(e, buf): buf.clear(), status 500, body := e.to_string()
internal_error_rsp(id, buf) ==
    [rsp |-> [status |-> "500", of |-> id], body |-> <<>> \o ErrText(id)]

\* response::encode(rsp, &mut rsp_buf): appends the status and the body
encode(rsp, body, out) == out \o <<<<rsp.status, rsp.of>>>> \o body

\* ------------------------------------------------------------ initial state
NoReq == 0

\* req_buf holds `fill` bytes of a header that is still going on (they
\* carry no terminator and are counted, not listed) and then the bytes of
\* req_buf; req_cap is its capacity.  n_decode, n_call, n_encode count the
\* calls of request::decode, service.call and response::encode in the
\* current iteration of the outer loop.
TaskInit ==
    [pc |-> "idle", req_buf |-> <<>>, rsp_buf |-> <<>>, body_buf |-> <<>>,
     req |-> NoReq, call_res |-> "none", len |-> 0, written |-> 0,
     fill |-> 0, req_cap |-> ReqCapacity,
     n_decode |-> 0, n_call |-> 0, n_encode |-> 0]

\* seg: the least number of bytes a segment from the peer carries (the last
\* one may be shorter); full_left: how often the send buffer may still fill
\* pads_left: the segments of a long header the peer may still send, each
\* of a size in chunks; pad_avail: the bytes of them waiting to be read
SockInit(present, script, seg, full, pads, chunks) ==
    [present |-> present, script |-> script, seg |-> seg, sent |-> 0,
     recvd |-> 0, peer_closed |-> FALSE, writable |-> TRUE,
     full_left |-> full, io_flag |-> FALSE, wire_out |-> <<>>,
     pads_left |-> pads, chunks |-> chunks, pad_avail |-> 0]

\* encoded: every byte appended to rsp_buf; decoded: the requests decode
\* returned; called: the service calls, [id, res, staged]; responses: what
\* each encode appended; exit: why the task returned; logged: error!(..)
\* calls; split: the requests a successful read ended in the middle of;
\* services: how each service instance of the connection was obtained;
\* spawned: the go!(each_connection_loop(..)) done for the connection;
\* grows: the times the capacity of req_buf changed
HistInit ==
    [encoded |-> <<>>, decoded |-> <<>>, called |-> <<>>, responses |-> <<>>,
     exit |-> "none", logged |-> 0, split |-> {},
     services |-> <<>>, spawned |-> 0, grows |-> 0]

\* cfg: for each connecting peer, [nreqs, seg, full, pads, chunks]
InitConns(cfg) ==
    /\ task = [c \in Conn |-> TaskInit]
    /\ \E scripts \in [DOMAIN cfg -> Scripts(MaxReqs)] :
         /\ \A c \in DOMAIN cfg : Len(scripts[c]) <= cfg[c].nreqs
         /\ sock = [c \in Conn |->
                     IF c \in DOMAIN cfg
                       THEN SockInit(TRUE, scripts[c], cfg[c].seg, cfg[c].full,
                                     cfg[c].pads, cfg[c].chunks)
                     ELSE SockInit(FALSE, <<>>, 1, 0, 0, {})]
    /\ hist = [c \in Conn |-> HistInit]

\* the server started by HttpServer::start
InitWith(cfg) ==
    /\ acceptor = [pc |-> "accepting", mode |-> "shared", unlogged |-> 0]
    /\ InitConns(cfg)

\* one peer sending one single byte of a header and no request
InitPad ==
    InitWith((1 :> [nreqs |-> 0, seg |-> 1, full |-> 0, pads |-> 1,
                    chunks |-> {1}]))

\* one peer sending up to MaxReqs requests, split at any byte
Init ==
    \/ InitWith((1 :> [nreqs |-> MaxReqs, seg |-> 1, full |-> MaxFull,
                       pads |-> 0, chunks |-> {}]))
    \/ InitPad

\* ------------------------------------------------------------ helpers
Active(c) == task[c].pc \notin {"idle", "done"}

InBytes(c) == ScriptBytes(sock[c].script)

Avail(c) == sock[c].sent - sock[c].recvd

\* the status bytes among bs: one per encoded response
StatusBytes(bs) == SelectSeq(bs, LAMBDA b : b[1] \in {"200", "500"})

\* Exit taking every connection task down with the failing one
Exit_All(c, why, log) ==
    /\ task' = [d \in Conn |-> [task[d] EXCEPT !.pc = "done"]]
    /\ hist' = [hist EXCEPT ![c].exit = why, ![c].logged = @ + log]

\* the task returns: the coroutine ends and its socket is dropped
Exit(c, why, log) ==
    /\ task' = [task EXCEPT ![c].pc = "done"]
    /\ hist' = [hist EXCEPT ![c].exit = why, ![c].logged = @ + log]

\* ------------------------------------------------------------ accept loop
\* listener.incoming() yields Ok(stream): a service for the connection
\* (new_service / clone) and go!(each_connection_loop(stream, service))
NewService(mode) == IF mode = "factory" THEN "new_service" ELSE "clone"

\* Accept spawning the task with the service of the acceptor itself
Accept_NoService(c) ==
    /\ acceptor.pc = "accepting"
    /\ sock[c].present
    /\ task[c].pc = "idle"
    /\ task' = [task EXCEPT ![c].pc = "start"]
    /\ hist' = [hist EXCEPT ![c].spawned = @ + 1]
    /\ UNCHANGED <<acceptor, sock>>

Accept(c) ==
    /\ acceptor.pc = "accepting"
    /\ sock[c].present
    /\ task[c].pc = "idle"
    /\ task' = [task EXCEPT ![c].pc = "start"]
    /\ hist' = [hist EXCEPT ![c].services = Append(@, NewService(acceptor.mode)),
                            ![c].spawned = @ + 1]
    /\ UNCHANGED <<acceptor, sock>>

\* listener.incoming() yields Err for a connection attempt: t_c! takes the
\* Err arm; the peer's attempt stays pending.  unlogged: the accept errors
\* no error!(..) has reported yet
AcceptErr ==
    /\ acceptor.pc = "accepting"
    /\ \E c \in Conn : sock[c].present /\ task[c].pc = "idle"
    /\ acceptor' = [acceptor EXCEPT !.pc = "accept_err", !.unlogged = @ + 1]
    /\ UNCHANGED <<task, sock, hist>>

\* t_c!: error!(..); continue
AcceptContinue ==
    /\ acceptor.pc = "accept_err"
    /\ acceptor' = [acceptor EXCEPT !.pc = "accepting", !.unlogged = @ - 1]
    /\ UNCHANGED <<task, sock, hist>>

\* the owner of the JoinHandle returned by start cancels the accept
\* coroutine, which is parked in listener.incoming(): it unwinds, and the
\* listener is dropped.  The connection coroutines were spawned detached.
Cancel ==
    /\ acceptor.pc = "accepting"
    /\ acceptor' = [acceptor EXCEPT !.pc = "cancelled"]
    /\ UNCHANGED <<task, sock, hist>>

\* ------------------------------------------------------------ each_connection_loop
\* the three buffers are created empty, the stream is set non-blocking
Start(c) ==
    /\ task[c].pc = "start"
    /\ task' = [task EXCEPT ![c] = [TaskInit EXCEPT !.pc = "top"]]
    /\ UNCHANGED <<acceptor, sock, hist>>

\* top of the outer loop: stream.reset_io()
ResetIo(c) ==
    /\ task[c].pc = "top"
    /\ task' = [task EXCEPT ![c].pc = "read", ![c].n_decode = 0,
                            ![c].n_call = 0, ![c].n_encode = 0]
    /\ sock' = [sock EXCEPT ![c].io_flag = FALSE]
    /\ UNCHANGED <<acceptor, hist>>

\* the request in the middle of which the first r bytes of the peer end
CutBy(r) == IF r % ReqLen = 0 THEN {} ELSE {(r \div ReqLen) + 1}

\* req_buf.len()
ReqBufLen(c) == task[c].fill + Len(task[c].req_buf)

\* BytesMut::reserve(additional) on a buffer that was never split or
\* advanced: nothing when the free capacity suffices, else the amortized
\* growth of the underlying Vec
reserve(cap, len, additional) ==
    IF cap - len >= additional THEN cap
    ELSE SetMax({2 * cap, len + additional})

\* ReadReserve with the test `remaining == 0`
ReadReserve_WhenFull(cap, len) ==
    LET remaining == cap - len
    IN IF remaining = 0 THEN reserve(cap, len, ReqCapacity - remaining)
       ELSE cap

\* let remaining = capacity - len;
\* if remaining < 512 { req_buf.reserve(4096 * 8 - remaining) }
ReadReserve(cap, len) ==
    LET remaining == cap - len
    IN IF remaining < Watermark THEN reserve(cap, len, ReqCapacity - remaining)
       ELSE cap

\* the capacity of req_buf when the read is issued
CapAtRead(c) == ReadReserve(task[c].req_cap, ReqBufLen(c))

Grown(c) == IF CapAtRead(c) # task[c].req_cap THEN 1 ELSE 0

\* stream.read gives Ok(n), n > 0: advance_mut(n), then the terminator scan.
\* The slice handed to read is far longer than the requests in flight, so
\* the read returns all of them: n is what the peer's segments delivered.
ReadOk(c) ==
    /\ task[c].pc = "read"
    /\ sock[c].pad_avail = 0
    /\ Avail(c) > 0
    /\ LET n == Avail(c)
           got == SubSeq(InBytes(c), sock[c].recvd + 1, sock[c].recvd + n)
           buf == task[c].req_buf \o got
       IN task' = [task EXCEPT ![c].req_buf = buf,
                               ![c].req_cap = CapAtRead(c),
                               ![c].pc = IF rfind(buf) # 0 THEN "decode" ELSE "read"]
    /\ sock' = [sock EXCEPT ![c].recvd = sock[c].sent]
    /\ hist' = [hist EXCEPT ![c].split = @ \cup CutBy(sock[c].sent),
                            ![c].grows = @ + Grown(c)]
    /\ UNCHANGED acceptor

\* stream.read gives Ok(n), n > 0, the n bytes being part of a long header:
\* as many of the waiting bytes as the slice takes; advance_mut(n), and the
\* terminator scan finds nothing
ReadPad(c) ==
    /\ task[c].pc = "read"
    /\ sock[c].pad_avail > 0
    /\ LET free == CapAtRead(c) - ReqBufLen(c)
           n == IF sock[c].pad_avail < free THEN sock[c].pad_avail ELSE free
       IN /\ task' = [task EXCEPT ![c].fill = @ + n,
                                  ![c].req_cap = CapAtRead(c)]
          /\ sock' = [sock EXCEPT ![c].pad_avail = @ - n]
    /\ hist' = [hist EXCEPT ![c].grows = @ + Grown(c)]
    /\ UNCHANGED acceptor

\* stream.read gives Ok(0): the peer closed and nothing is left to read
ReadZero(c) ==
    /\ task[c].pc = "read"
    /\ sock[c].pad_avail = 0
    /\ Avail(c) = 0
    /\ sock[c].peer_closed
    /\ Exit(c, "read_eof", 0)
    /\ UNCHANGED <<acceptor, sock>>

\* stream.read gives Err(WouldBlock): nothing to read on the open socket
ReadWouldBlock(c) ==
    /\ task[c].pc = "read"
    /\ sock[c].pad_avail = 0
    /\ Avail(c) = 0
    /\ ~sock[c].peer_closed
    /\ Exit(c, "read_wouldblock", 0)
    /\ UNCHANGED <<acceptor, sock>>

\* ReadReset without the ConnectionReset | UnexpectedEof test: the error
\* falls through to error!(..)
ReadReset_Logged(c) ==
    /\ task[c].pc = "read"
    /\ Exit(c, "read_reset", 1)
    /\ UNCHANGED <<acceptor, sock>>

\* stream.read gives Err(ConnectionReset | UnexpectedEof): silent return
ReadReset(c) ==
    /\ task[c].pc = "read"
    /\ Exit(c, "read_reset", 0)
    /\ UNCHANGED <<acceptor, sock>>

\* stream.read gives any other Err: error!(..) and return
ReadErr(c) ==
    /\ task[c].pc = "read"
    /\ Exit(c, "read_other", 1)
    /\ UNCHANGED <<acceptor, sock>>

\* AfterDecode with `if let Some(req) = decode(..).ok().flatten()`: a
\* malformed request is skipped like an incomplete one
AfterDecode_ErrSkipped(c, r) ==
    CASE r.res = "some" ->
           /\ task' = [task EXCEPT ![c].req = r.id, ![c].pc = "call",
                                   ![c].n_decode = @ + 1]
           /\ hist' = [hist EXCEPT ![c].decoded = Append(@, r.id)]
      [] OTHER ->
           /\ task' = [task EXCEPT ![c].pc = "clear", ![c].n_decode = @ + 1]
           /\ UNCHANGED hist

\* what the task does with the result r of request::decode
AfterDecode(c, r) ==
    CASE r.res = "err" ->
           Exit(c, "decode_err", 1)
      [] r.res = "some" ->
           /\ task' = [task EXCEPT ![c].req = r.id, ![c].pc = "call",
                                   ![c].n_decode = @ + 1]
           /\ hist' = [hist EXCEPT ![c].decoded = Append(@, r.id)]
      [] OTHER ->
           /\ task' = [task EXCEPT ![c].pc = "clear", ![c].n_decode = @ + 1]
           /\ UNCHANGED hist

\* t!(request::decode(&req_buf, &mut headers, &mut stream))
Decode(c) ==
    /\ task[c].pc = "decode"
    /\ AfterDecode(c, decode(task[c].req_buf))
    /\ UNCHANGED <<acceptor, sock>>

\* Response::new(&mut body_buf); service.call(req, &mut rsp): the handler
\* stages its body and returns Ok, or fails after staging some or nothing
Call(c) ==
    /\ task[c].pc = "call"
    /\ \E res \in {"ok", "err"} :
         \E staged \in {<<>>, HandlerBody(task[c].req)} :
           /\ res = "ok" => staged # <<>>
           /\ task' = [task EXCEPT ![c].call_res = res,
                                   ![c].body_buf = @ \o staged,
                                   ![c].n_call = @ + 1,
                                   ![c].pc = "encode"]
           /\ hist' = [hist EXCEPT ![c].called =
                         Append(@, [id |-> task[c].req, res |-> res,
                                    staged |-> staged])]
    /\ UNCHANGED <<acceptor, sock>>

\* dispatch with the Err arm falling through to the Ok arm: both encoded
dispatch_Both(res, id, body, out) ==
    IF res = "err"
      THEN LET e == internal_error_rsp(id, body)
           IN encode(Response_new(id), body, encode(e.rsp, e.body, out))
      ELSE encode(Response_new(id), body, out)

\* the two arms of `if let Err(e) = service.call(..)`: what rsp_buf becomes
dispatch(res, id, body, out) ==
    IF res = "err"
      THEN LET e == internal_error_rsp(id, body) IN encode(e.rsp, e.body, out)
      ELSE encode(Response_new(id), body, out)

\* Encode inside `while let Some(req) = t!(request::decode(..))`: the
\* decoder is asked again after each response
Encode_WhileLet(c) ==
    /\ task[c].pc = "encode"
    /\ LET out == dispatch(task[c].call_res, task[c].req, task[c].body_buf,
                           task[c].rsp_buf)
           new == SubSeq(out, Len(task[c].rsp_buf) + 1, Len(out))
       IN /\ task' = [task EXCEPT ![c].rsp_buf = out,
                                  ![c].body_buf = <<>>,
                                  ![c].n_encode = @ + 1,
                                  ![c].pc = "decode"]
          /\ hist' = [hist EXCEPT ![c].encoded = @ \o new,
                                  ![c].responses = Append(@, new)]
    /\ UNCHANGED <<acceptor, sock>>

\* response::encode(..) of the handler's response or of the fallback; the
\* encoder drains the body buffer
Encode(c) ==
    /\ task[c].pc = "encode"
    /\ LET out == dispatch(task[c].call_res, task[c].req, task[c].body_buf,
                           task[c].rsp_buf)
           new == SubSeq(out, Len(task[c].rsp_buf) + 1, Len(out))
       IN /\ task' = [task EXCEPT ![c].rsp_buf = out,
                                  ![c].body_buf = <<>>,
                                  ![c].n_encode = @ + 1,
                                  ![c].pc = "clear"]
          /\ hist' = [hist EXCEPT ![c].encoded = @ \o new,
                                  ![c].responses = Append(@, new)]
    /\ UNCHANGED <<acceptor, sock>>

\* Clear with `req_buf = BytesMut::with_capacity(4096 * 8)`
Clear_Realloc(c) ==
    /\ task[c].pc = "clear"
    /\ task' = [task EXCEPT ![c].req_buf = <<>>,
                            ![c].fill = 0,
                            ![c].req_cap = ReqCapacity,
                            ![c].req = NoReq,
                            ![c].call_res = "none",
                            ![c].len = Len(task[c].rsp_buf),
                            ![c].written = 0,
                            ![c].pc = "write"]
    /\ UNCHANGED <<acceptor, sock, hist>>

\* Clear with req_buf.clear() moved behind the write loop
Clear_AfterWrite(c) ==
    /\ task[c].pc = "clear"
    /\ task' = [task EXCEPT ![c].req = NoReq,
                            ![c].call_res = "none",
                            ![c].len = Len(task[c].rsp_buf),
                            ![c].written = 0,
                            ![c].pc = "write"]
    /\ UNCHANGED <<acceptor, sock, hist>>

\* req_buf.clear(); let len = rsp_buf.len(); let mut written = 0
Clear(c) ==
    /\ task[c].pc = "clear"
    /\ task' = [task EXCEPT ![c].req_buf = <<>>,
                            ![c].fill = 0,
                            ![c].req = NoReq,
                            ![c].call_res = "none",
                            ![c].len = Len(task[c].rsp_buf),
                            ![c].written = 0,
                            ![c].pc = "write"]
    /\ UNCHANGED <<acceptor, sock, hist>>

\* stream.write(&rsp_buf[written..]) gives Ok(n), n > 0: written += n
WriteOk(c, n) ==
    /\ task[c].pc = "write"
    /\ task[c].written < task[c].len
    /\ sock[c].writable
    /\ n \in 1..(task[c].len - task[c].written)
    /\ sock' = [sock EXCEPT ![c].wire_out =
                  @ \o SubSeq(task[c].rsp_buf, task[c].written + 1,
                              task[c].written + n)]
    /\ task' = [task EXCEPT ![c].written = @ + n]
    /\ UNCHANGED <<acceptor, hist>>

\* stream.write gives Ok(0): return
WriteZero(c) ==
    /\ task[c].pc = "write"
    /\ task[c].written < task[c].len
    /\ Exit(c, "write_zero", 0)
    /\ UNCHANGED <<acceptor, sock>>

\* stream.write gives Err(WouldBlock): break out of the write loop
WriteWouldBlock(c) ==
    /\ task[c].pc = "write"
    /\ task[c].written < task[c].len
    /\ ~sock[c].writable
    /\ task' = [task EXCEPT ![c].pc = "flush"]
    /\ UNCHANGED <<acceptor, sock, hist>>

\* stream.write gives Err(ConnectionReset | UnexpectedEof): silent return
WriteReset(c) ==
    /\ task[c].pc = "write"
    /\ task[c].written < task[c].len
    /\ Exit(c, "write_reset", 0)
    /\ UNCHANGED <<acceptor, sock>>

\* stream.write gives any other Err: error!(..) and return
WriteErr(c) ==
    /\ task[c].pc = "write"
    /\ task[c].written < task[c].len
    /\ Exit(c, "write_other", 1)
    /\ UNCHANGED <<acceptor, sock>>

\* `while written < len` ends
WriteDone(c) ==
    /\ task[c].pc = "write"
    /\ task[c].written >= task[c].len
    /\ task' = [task EXCEPT ![c].pc = "flush"]
    /\ UNCHANGED <<acceptor, sock, hist>>

\* FlushBuf without the `else if written > 0` arm: the written bytes stay
FlushBuf_NoAdvance(buf, written, len) ==
    IF written = len THEN <<>> ELSE buf

\* FlushBuf with set_len(0) whatever was written
FlushBuf_AlwaysReset(buf, written, len) == <<>>

\* if written == len { set_len(0) } else if written > 0 { advance(written) }
FlushBuf(buf, written, len) ==
    IF written = len THEN <<>>
    ELSE IF written > 0 THEN SubSeq(buf, written + 1, Len(buf))
    ELSE buf

\* `len` and `written` go out of scope with the iteration
Flush(c) ==
    /\ task[c].pc = "flush"
    /\ task' = [task EXCEPT
                  ![c].rsp_buf = FlushBuf(@, task[c].written, task[c].len),
                  ![c].len = 0,
                  ![c].written = 0,
                  ![c].pc = "wait_io"]
    /\ UNCHANGED <<acceptor, sock, hist>>

\* stream.wait_io(): the coroutine is suspended until an I/O event has been
\* seen on the socket since the last reset_io
WaitIo(c) ==
    /\ task[c].pc = "wait_io"
    /\ sock[c].io_flag
    /\ task' = [task EXCEPT ![c].pc = "top"]
    /\ UNCHANGED <<acceptor, sock, hist>>

\* ------------------------------------------------------------ the peer and the socket
\* the peer sends a segment of n bytes of a long header, before its
\* requests and once the segment before has been taken
PeerPad(c, n) ==
    /\ Active(c)
    /\ ~sock[c].peer_closed
    /\ sock[c].sent = 0
    /\ sock[c].pad_avail = 0
    /\ sock[c].pads_left > 0
    /\ n \in sock[c].chunks
    /\ sock' = [sock EXCEPT ![c].pad_avail = n, ![c].pads_left = @ - 1,
                            ![c].io_flag = TRUE]
    /\ UNCHANGED <<acceptor, task, hist>>

\* the peer's next k bytes arrive: the socket becomes readable
PeerSend(c, k) ==
    /\ Active(c)
    /\ ~sock[c].peer_closed
    /\ sock[c].pad_avail = 0
    /\ k \in 1..(Len(InBytes(c)) - sock[c].sent)
    /\ k >= sock[c].seg \/ k = Len(InBytes(c)) - sock[c].sent
    /\ sock' = [sock EXCEPT ![c].sent = @ + k, ![c].io_flag = TRUE]
    /\ UNCHANGED <<acceptor, task, hist>>

\* the peer closes its end
PeerClose(c) ==
    /\ Active(c)
    /\ ~sock[c].peer_closed
    /\ sock' = [sock EXCEPT ![c].peer_closed = TRUE, ![c].io_flag = TRUE]
    /\ UNCHANGED <<acceptor, task, hist>>

\* the socket's send buffer fills up: the next write would block
SockFull(c) ==
    /\ Active(c)
    /\ sock[c].writable
    /\ sock[c].full_left > 0
    /\ sock' = [sock EXCEPT ![c].writable = FALSE, ![c].full_left = @ - 1]
    /\ UNCHANGED <<acceptor, task, hist>>

\* the send buffer drains: the socket becomes writable again
SockDrain(c) ==
    /\ Active(c)
    /\ ~sock[c].writable
    /\ sock' = [sock EXCEPT ![c].writable = TRUE, ![c].io_flag = TRUE]
    /\ UNCHANGED <<acceptor, task, hist>>

\* ------------------------------------------------------------ specification
TaskStep(c) ==
    \/ Start(c)
    \/ ResetIo(c)
    \/ ReadOk(c)
    \/ ReadPad(c)
    \/ ReadZero(c)
    \/ ReadWouldBlock(c)
    \/ ReadReset(c)
    \/ ReadErr(c)
    \/ Decode(c)
    \/ Call(c)
    \/ Encode(c)
    \/ Clear(c)
    \/ \E n \in 1..Len(task[c].rsp_buf) : WriteOk(c, n)
    \/ WriteZero(c)
    \/ WriteWouldBlock(c)
    \/ WriteReset(c)
    \/ WriteErr(c)
    \/ WriteDone(c)
    \/ Flush(c)
    \/ WaitIo(c)

EnvStep(c) ==
    \/ \E k \in 1..Len(InBytes(c)) : PeerSend(c, k)
    \/ \E n \in sock[c].chunks : PeerPad(c, n)
    \/ PeerClose(c)
    \/ SockFull(c)
    \/ SockDrain(c)

Next ==
    \/ \E c \in Conn : Accept(c)
    \/ AcceptErr
    \/ AcceptContinue
    \/ Cancel
    \/ \E c \in Conn : TaskStep(c)
    \/ \E c \in Conn : EnvStep(c)

Spec == Init /\ [][Next]_vars

\* one peer sending at most one request; a runnable coroutine is eventually
\* run by the scheduler, and a full send buffer eventually drains
InitOne ==
    \/ InitWith((1 :> [nreqs |-> 1, seg |-> 1, full |-> MaxFull,
                       pads |-> 0, chunks |-> {}]))
    \/ InitPad

FairSpec ==
    /\ InitOne
    /\ [][Next]_vars
    /\ \A c \in Conn : WF_vars(TaskStep(c)) /\ WF_vars(SockDrain(c))

\* ------------------------------------------------------------ claims
\* the bytes of rsp_buf the socket has not accepted yet
Unwritten(c) ==
    IF task[c].pc \in {"write", "flush"}
      THEN SubSeq(task[c].rsp_buf, task[c].written + 1, Len(task[c].rsp_buf))
      ELSE task[c].rsp_buf

\* exits caused by the socket or the peer
SocketExits ==
    {"read_eof", "read_reset", "read_other",
     "write_zero", "write_reset", "write_other"}

\* C1: the task never issues a read while bytes of an encoded response are
\* still unwritten in the response buffer.
C1_NoReadBeforeFlushed ==
    \A c \in Conn : task[c].pc = "read" => task[c].rsp_buf = <<>>

\* C2: once a response has been encoded, and as long as the peer stays
\* connected and the socket does not fail, every encoded byte is eventually
\* written to the socket (the peer of InitOne sends no further request).
C2_EventuallyAllWritten ==
    \A c \in Conn :
      (hist[c].encoded # <<>>)
        ~> \/ sock[c].wire_out = hist[c].encoded
           \/ sock[c].peer_closed
           \/ hist[c].exit \in SocketExits

\* C3: the bytes the socket accepted are a prefix of the encoded responses in
\* encoding order, and while the task runs the accepted bytes followed by
\* the unwritten part of rsp_buf are exactly the encoded bytes: nothing is
\* written twice and nothing is skipped, also across outer-loop iterations.
C3_InOrderNoDupNoGap ==
    \A c \in Conn :
      /\ IsPrefix(sock[c].wire_out, hist[c].encoded)
      /\ Active(c) => sock[c].wire_out \o Unwritten(c) = hist[c].encoded

\* C3 witness: the last byte of response 1 was carried over a would-block
\* into the iteration of response 2, and all three bytes have been written.
C3_Witness ==
    \E c \in Conn :
      /\ task[c].pc = "write"
      /\ task[c].len = 3
      /\ task[c].written = 3
      /\ task[c].rsp_buf[1][2] = 1
      /\ task[c].rsp_buf[2][2] = 2
      /\ Len(sock[c].wire_out) = 4

\* C4: a read that returns would-block does not end the task: it stays in
\* the read phase with the bytes accumulated so far.
C4_ReadWouldBlockRetries ==
    [][\A c \in Conn :
         ReadWouldBlock(c) =>
           /\ task'[c].pc = "read"
           /\ task'[c].req_buf = task[c].req_buf]_vars

\* the ids of the service calls, in order
CallIds(c) == [i \in 1..Len(hist[c].called) |-> hist[c].called[i].id]

\* the request a step at one of the places pcs is working on
Pending(c, pcs) == IF task[c].pc \in pcs THEN <<task[c].req>> ELSE <<>>

\* C5: every request decode returned gets exactly one service call and
\* exactly one encoded response: the handler's (200) when the call returned
\* Ok, the fallback (500) when it returned Err.
C5_OneCallOneResponse ==
    \A c \in Conn :
      /\ hist[c].decoded = CallIds(c) \o Pending(c, {"call"})
      /\ Len(hist[c].responses) + Len(Pending(c, {"encode"}))
           = Len(hist[c].called)
      /\ \A i \in 1..Len(hist[c].responses) :
           /\ Len(StatusBytes(hist[c].responses[i])) = 1
           /\ hist[c].responses[i][1] =
                <<IF hist[c].called[i].res = "ok" THEN "200" ELSE "500",
                  hist[c].called[i].id>>

\* C5 witness: a failed call and a successful call, each answered
C5_Witness ==
    \E c \in Conn :
      /\ Len(hist[c].responses) = 2
      /\ hist[c].called[1].res = "err"
      /\ hist[c].called[2].res = "ok"

\* C6: a failed service call is answered by status 500 with exactly the
\* error's text as body, whatever the handler staged; the failure does not
\* end the task: it goes on to encode, to the clear and to the write phase,
\* and from the write phase to the wait and the next read phase.
C6_FallbackResponse ==
    /\ [](\A c \in Conn : \A i \in 1..Len(hist[c].responses) :
            hist[c].called[i].res = "err" =>
              hist[c].responses[i] =
                <<<<"500", hist[c].called[i].id>>>> \o ErrText(hist[c].called[i].id))
    /\ [][\A c \in Conn :
            /\ (Call(c) /\ task'[c].call_res = "err") => task'[c].pc = "encode"
            /\ (task[c].call_res = "err" /\ task'[c] # task[c])
                  => task'[c].pc \in {"clear", "write"}
            /\ task[c].pc = "flush" /\ task'[c] # task[c]
                  => task'[c].pc = "wait_io"
            /\ task[c].pc = "wait_io" /\ task'[c] # task[c]
                  => task'[c].pc = "top"
            /\ task[c].pc = "top" /\ task'[c] # task[c]
                  => task'[c].pc = "read"]_vars

\* C6 witness: the handler staged a body and failed, the 500 went out in
\* full and the task is in the next read phase
C6_Witness ==
    \E c \in Conn :
      /\ task[c].pc = "read"
      /\ Len(hist[c].called) = 1
      /\ hist[c].called[1].res = "err"
      /\ hist[c].called[1].staged # <<>>
      /\ sock[c].wire_out = <<<<"500", 1>>>> \o ErrText(1)

\* the ids of the responses whose status byte is in bs
RespIds(bs) == [i \in 1..Len(StatusBytes(bs)) |-> StatusBytes(bs)[i][2]]

\* C7: when the peer's k valid requests have all been read and the task is
\* waiting with nothing left to write, k responses have been returned, in
\* request order.
C7_KeepAlive ==
    \A c \in Conn :
      ( /\ \A i \in 1..Len(sock[c].script) : sock[c].script[i] = "ok"
        /\ sock[c].recvd = Len(InBytes(c))
        /\ task[c].pc = "wait_io"
        /\ task[c].rsp_buf = <<>> )
      => RespIds(sock[c].wire_out) = [i \in 1..Len(sock[c].script) |-> i]

\* how often x occurs in the sequence s
Count(s, x) == Cardinality({i \in 1..Len(s) : s[i] = x})

\* C8: decode is attempted only with the complete terminator in the read
\* buffer, and, on a connection whose requests are all valid, a request
\* that arrived split across successful reads, whose bytes have all been
\* read and are no longer in the read buffer of the running task, has been
\* decoded exactly once and answered by exactly one response.
C8_BoundaryThenOneResponse ==
    \A c \in Conn :
      /\ task[c].pc = "decode" => TerminatorAt(task[c].req_buf) # {}
      /\ \A i \in 1..Len(sock[c].script) :
           ( /\ \A j \in 1..Len(sock[c].script) : sock[c].script[j] = "ok"
             /\ i \in hist[c].split
             /\ sock[c].recvd >= ReqLen * i
             /\ Active(c)
             /\ Count(task[c].req_buf, <<"ok", i>>) = 0 )
           => /\ Count(hist[c].decoded, i) = 1
              /\ Count(RespIds(hist[c].encoded), i) = 1

\* the first half of C8 alone: decode only with the terminator present
C8_NeverEarlier ==
    \A c \in Conn :
      task[c].pc = "decode" => TerminatorAt(task[c].req_buf) # {}

\* C9: a malformed request ends the task at the decode: no service call,
\* no response encoded, nothing written; and a task that has returned does
\* nothing more.
C9_MalformedEndsTask ==
    [][\A c \in Conn :
         /\ ( /\ task[c].pc = "decode"
              /\ decode(task[c].req_buf).res = "err"
              /\ task'[c] # task[c] )
            => /\ task'[c].pc = "done"
               /\ hist'[c].exit = "decode_err"
               /\ hist'[c].called = hist[c].called
               /\ hist'[c].responses = hist[c].responses
               /\ hist'[c].encoded = hist[c].encoded
               /\ sock'[c].wire_out = sock[c].wire_out
         /\ task[c].pc = "done"
            => /\ task'[c] = task[c]
               /\ hist'[c] = hist[c]
               /\ sock'[c].wire_out = sock[c].wire_out]_vars

\* C9 witness: the second request was malformed; the first was answered
C9_Witness ==
    \E c \in Conn :
      /\ hist[c].exit = "decode_err"
      /\ sock[c].script = <<"ok", "bad">>
      /\ Len(hist[c].called) = 1
      /\ sock[c].wire_out = hist[c].encoded

\* two peers: the first sends whole requests to a socket that never fills,
\* the second sends whole requests to a socket that can fill
InitIso ==
    \/ InitWith((1 :> [nreqs |-> IsoReqs, seg |-> ReqLen, full |-> 0,
                       pads |-> 0, chunks |-> {}])
                @@ (2 :> [nreqs |-> IsoReqs, seg |-> ReqLen, full |-> MaxFull,
                          pads |-> 0, chunks |-> {}]))
    \/ InitPad

SpecIso == InitIso /\ [][Next]_vars

\* C10: a step of one connection, whatever it is (a handler failure, a
\* decode failure, an I/O error), changes nothing of any other connection
\* (its buffers, its control state, its socket, what it has returned) and
\* nothing of the accept loop, which goes on as it was.
C10_Isolation ==
    [][\A c \in Conn :
         (task'[c] # task[c] \/ sock'[c] # sock[c] \/ hist'[c] # hist[c])
         => /\ acceptor' = acceptor
            /\ \A d \in Conn \ {c} :
                 /\ task'[d] = task[d]
                 /\ sock'[d] = sock[d]
                 /\ hist'[d] = hist[d]]_vars

\* C10 witness: connection 1 ended on a malformed request, connection 2
\* saw its handler fail, returned the 500 and is still running
C10_Witness ==
    /\ hist[1].exit = "decode_err"
    /\ task[2].pc = "wait_io"
    /\ Len(hist[2].called) = 1
    /\ hist[2].called[1].res = "err"
    /\ sock[2].wire_out = hist[2].encoded
    /\ acceptor.pc = "accepting"

\* ------------------------------------------------------------ accept loop and cancellation
\* the reasons a task returns for that are a close by its peer or an error
PeerCloseOrFatal == SocketExits \cup {"decode_err"}

\* C11: cancelling the acceptor changes no connection task, no socket and
\* nothing a task has done; once it is cancelled no further task is
\* spawned; and every task spawned before goes on until it returns on a
\* close by its own peer or on an error of its own.
C11_CancelLeavesTasksRunning ==
    [][/\ (acceptor.pc # "cancelled" /\ acceptor'.pc = "cancelled")
          => /\ task' = task
             /\ sock' = sock
             /\ hist' = hist
       /\ acceptor.pc = "cancelled"
          => \A c \in Conn :
               /\ task[c].pc = "idle" => task'[c] = task[c]
               /\ hist'[c].spawned = hist[c].spawned
               /\ (Active(c) /\ task'[c].pc = "done")
                  => hist'[c].exit \in PeerCloseOrFatal]_vars

\* two peers connect to a server started either way: the first sends one
\* byte of a header and up to one whole request, the second sends nothing
InitAccept ==
    /\ \E m \in Modes : acceptor = [pc |-> "accepting", mode |-> m, unlogged |-> 0]
    /\ InitConns((1 :> [nreqs |-> 1, seg |-> ReqLen, full |-> MaxFull,
                        pads |-> 1, chunks |-> {1}])
                 @@ (2 :> [nreqs |-> 0, seg |-> 1, full |-> 0,
                           pads |-> 0, chunks |-> {}]))

SpecAccept == InitAccept /\ [][Next]_vars

\* C12: in both start variants a connection that has been accepted has
\* exactly one service instance, obtained by new_service in factory mode
\* and by clone in shared mode, and exactly one task spawned for it; a
\* connection not accepted has neither.  An accept error spawns no task and
\* obtains no service, it is logged before the loop accepts again, and the
\* loop does accept again.
C12_OneServiceOneTask ==
    /\ [](\A c \in Conn :
            IF task[c].pc = "idle"
              THEN hist[c].services = <<>> /\ hist[c].spawned = 0
              ELSE /\ hist[c].spawned = 1
                   /\ acceptor.mode = "factory"
                      => hist[c].services = <<"new_service">>
                   /\ acceptor.mode = "shared"
                      => hist[c].services = <<"clone">>)
    /\ [](acceptor.pc = "accepting" => acceptor.unlogged = 0)
    /\ [][/\ (acceptor.pc # "accept_err" /\ acceptor'.pc = "accept_err")
             => /\ acceptor.pc = "accepting"
                /\ acceptor'.unlogged = 1
                /\ task' = task
                /\ hist' = hist
          /\ (acceptor.pc = "accept_err" /\ acceptor' # acceptor)
             => /\ acceptor'.pc = "accepting"
                /\ acceptor'.unlogged = 0
                /\ task' = task
                /\ hist' = hist]_vars

\* C12 witness: the factory-mode server has spawned the task of the first
\* connection with its service, and the accept of the second failed
C12_Witness ==
    /\ acceptor.mode = "factory"
    /\ acceptor.pc = "accept_err"
    /\ hist[1].spawned = 1
    /\ hist[1].services = <<"new_service">>
    /\ sock[2].present
    /\ task[2].pc = "idle"

\* ------------------------------------------------------------ read buffer capacity
\* one peer sending a header of up to MaxPads segments and then up to one
\* whole request
InitBuf ==
    InitWith((1 :> [nreqs |-> 1, seg |-> ReqLen, full |-> MaxFull,
                    pads |-> MaxPads, chunks |-> ChunkSizes]))

BufSpec == InitBuf /\ [][Next]_vars

\* ceil(n / d)
CeilDiv(n, d) == (n + d - 1) \div d

\* C13: the capacity of the read buffer never decreases; when it grows it
\* grows by exactly the fixed increment; and when the buffer has grown k
\* times, k is at most ceil(size / increment) for the size it then holds.
C13_FixedIncrementGrowth ==
    [][\A c \in Conn :
         /\ task'[c].req_cap >= task[c].req_cap
         /\ task'[c].req_cap # task[c].req_cap
            => task'[c].req_cap = task[c].req_cap + ReqCapacity
         /\ hist'[c].grows > hist[c].grows
            => hist'[c].grows
                 <= CeilDiv(task'[c].fill + Len(task'[c].req_buf), ReqCapacity)]_vars

\* C14: the reset of the read buffer leaves it with length 0 and with the
\* capacity it had; it changes neither the response buffer nor the body
\* buffer nor the socket; and at the end of every request/response cycle
\* the read buffer is empty.
C14_ResetKeepsCapacity ==
    [][\A c \in Conn :
         /\ (task[c].pc = "clear" /\ task'[c] # task[c])
            => /\ task'[c].req_buf = <<>>
               /\ task'[c].fill = 0
               /\ task'[c].req_cap = task[c].req_cap
               /\ task'[c].rsp_buf = task[c].rsp_buf
               /\ task'[c].body_buf = task[c].body_buf
               /\ sock'[c] = sock[c]
         /\ task'[c].pc = "wait_io"
            => /\ task'[c].req_buf = <<>>
               /\ task'[c].fill = 0]_vars

\* C14 witness: a request with a header long enough to grow the buffer was
\* answered; the buffer has just been reset and keeps the grown capacity
C14_Witness ==
    \E c \in Conn :
      /\ task[c].pc = "write"
      /\ task[c].written = 0
      /\ task[c].req_cap > ReqCapacity
      /\ task[c].req_buf = <<>>
      /\ task[c].fill = 0
      /\ Len(hist[c].responses) = 1
      /\ task[c].rsp_buf # <<>>

\* C15: when request::decode reports that it needs more data, the service
\* is not called, no response is encoded, the task goes on, and nothing is
\* taken out of the read buffer on the way back to the read phase.
C15_NeedMoreDataKeepsBytes ==
    [][\A c \in Conn :
         /\ ( /\ task[c].pc = "decode"
              /\ decode(task[c].req_buf).res = "none"
              /\ task'[c] # task[c] )
            => /\ task'[c].pc # "done"
               /\ task'[c].n_call = 0
               /\ task'[c].n_encode = 0
               /\ task'[c].req_buf = task[c].req_buf
         /\ ( /\ task[c].n_decode = 1
              /\ task[c].n_call = 0
              /\ task[c].pc \in {"clear", "write", "flush", "wait_io", "top"}
              /\ task'[c] # task[c] )
            => /\ task'[c].req_buf = task[c].req_buf
               /\ task'[c].n_call = 0
               /\ task'[c].n_encode = 0]_vars

\* C16: whenever a read is issued, the free capacity of the read buffer,
\* after the growth test that precedes the read, is at least the watermark.
C16_FreeAtLeastWatermark ==
    \A c \in Conn :
      task[c].pc = "read"
      => /\ CapAtRead(c) - ReqBufLen(c) >= Watermark
         /\ CapAtRead(c) >= task[c].req_cap

\* C16 witness: the buffer is full to less than the watermark and is not
\* empty, and the read about to be issued grows it
C16_Witness ==
    \E c \in Conn :
      /\ task[c].pc = "read"
      /\ ReqBufLen(c) > 0
      /\ task[c].req_cap - ReqBufLen(c) \in 1..(Watermark - 1)
      /\ CapAtRead(c) > task[c].req_cap

\* ------------------------------------------------------------ write phase
\* C17: the response buffer loses bytes only at the end of a write phase,
\* and then exactly the bytes the socket accepted: what stays is the
\* unwritten suffix, in order; it becomes empty only when written == len.
C17_ResetOnlyWhenAllWritten ==
    [][\A c \in Conn :
         /\ (task[c].pc = "flush" /\ task'[c] # task[c])
            => /\ task'[c].rsp_buf
                    = SubSeq(task[c].rsp_buf, task[c].written + 1,
                             Len(task[c].rsp_buf))
               /\ (task[c].rsp_buf # <<>> /\ task'[c].rsp_buf = <<>>)
                  => task[c].written = task[c].len
         /\ Len(task'[c].rsp_buf) < Len(task[c].rsp_buf)
            => task[c].pc = "flush"
         /\ task[c].pc \in {"write", "flush"}
            => task[c].len = Len(task[c].rsp_buf)]_vars

\* C17 witness: a write phase was cut short by would-block after one of the
\* two bytes of the response; the buffer holds the other one
C17_Witness ==
    \E c \in Conn :
      /\ task[c].pc = "wait_io"
      /\ ~sock[c].writable
      /\ Len(task[c].rsp_buf) = 1
      /\ Len(sock[c].wire_out) = 1
      /\ sock[c].wire_out \o task[c].rsp_buf = hist[c].encoded

BenignExits == {"read_eof", "read_reset", "write_zero", "write_reset"}

\* C19: a zero-byte read, a zero-byte write and a connection reset or an
\* unexpected end of stream at a read or a write end the task without an
\* error being logged; any other error of a read or a write, would-block
\* excepted, is logged once and ends the task; and a task that has ended
\* reads nothing, writes nothing and calls no service.
C19_BenignClose ==
    [][\A c \in Conn :
         /\ (hist[c].exit = "none" /\ hist'[c].exit \in BenignExits)
            => /\ task'[c].pc = "done"
               /\ hist'[c].logged = hist[c].logged
         /\ (hist[c].exit = "none" /\ hist'[c].exit \in {"read_other", "write_other"})
            => /\ task'[c].pc = "done"
               /\ hist'[c].logged = hist[c].logged + 1
         /\ hist[c].exit \in SocketExits
            => /\ task[c].pc = "done"
               /\ task'[c] = task[c]
               /\ hist'[c] = hist[c]
               /\ sock'[c].recvd = sock[c].recvd
               /\ sock'[c].pad_avail = sock[c].pad_avail
               /\ sock'[c].wire_out = sock[c].wire_out]_vars

\* C19 witness: the task answered a request, then a read failed with a
\* connection reset: it has returned and nothing was logged
C19_Witness ==
    \E c \in Conn :
      /\ hist[c].exit = "read_reset"
      /\ hist[c].logged = 0
      /\ Len(hist[c].called) = 1
      /\ sock[c].wire_out # <<>>

\* C20: in an iteration of the outer loop request::decode is called at most
\* once, and exactly once in an iteration that gets past the read phase;
\* the service is called at most once and a response is encoded at most
\* once, only for a service call; and in the write loop
\* 0 <= written <= len = rsp_buf.len().
C20_OnceAndInBounds ==
    \A c \in Conn :
      /\ task[c].n_decode <= 1
      /\ task[c].n_call <= task[c].n_decode
      /\ task[c].n_encode <= task[c].n_call
      /\ task[c].pc \in {"call", "encode", "clear", "write", "flush", "wait_io"}
         => task[c].n_decode = 1
      /\ task[c].pc \in {"clear", "write", "flush", "wait_io"}
         => task[c].n_encode = task[c].n_call
      /\ task[c].pc \in {"write", "flush"}
         => /\ 0 <= task[c].written
            /\ task[c].written <= task[c].len
            /\ task[c].len = Len(task[c].rsp_buf)

\* C20 witness: in the second iteration one request was decoded, the
\* service was called once, one response was encoded behind a byte left
\* over, and the write loop is in the middle of the buffer
C20_Witness ==
    \E c \in Conn :
      /\ task[c].pc = "write"
      /\ task[c].n_decode = 1
      /\ task[c].n_call = 1
      /\ task[c].n_encode = 1
      /\ Len(hist[c].responses) = 2
      /\ task[c].len = 3
      /\ task[c].written = 2
====
